---- MODULE Spec2Model ----
(***************************************************************************)
(* Model of BitcoinLedgerProvider                                          *)
(* (packages/btc-ledger-wallet/src/wallet.ts): address derivation and      *)
(* scanning, used/unused classification, coin selection with the           *)
(* spend-all retry, and transaction assembly for the signing device.       *)
(*                                                                         *)
(* The device, the data provider, the script library and coinselect are    *)
(* external: each call to one of them is recorded in `trace`, and what     *)
(* they answer is chosen nondeterministically within their contract.       *)
(***************************************************************************)
EXTENDS Integers, Sequences, FiniteSets, TLC

\* ---------------------------------------------------------------- bounds
\* UTXOs the provider holds for the wallet.
MaxUtxos == 2
\* Largest numAddressPerCall / addressesPerCall argument of a direct call.
MaxBatch == 2
\* Largest fee, in satoshi, the selection collaborator reports.
MaxFee == 1
\* Longest payment list handed to _buildTransaction.
MaxPayments == 2

\* ------------------------------------------------------- program constants
\* wallet.ts:221  new BigNumber(utxo.amount).times(1e8)
SatPerCoin == 100000000
\* wallet.ts:100 / wallet.ts:212  numAddressPerCall = 25
DefaultNumAddressPerCall == 25
\* wallet.ts:25   network = Networks.bitcoin  (coinType of the BIP44 path)
CoinType == 0

\* wallet.ts:12
ADDRESS_PREFIX ==
  [t \in {"legacy", "p2sh-segwit", "bech32"} |->
     IF t = "legacy" THEN 44 ELSE IF t = "p2sh-segwit" THEN 49 ELSE 84]

AddressTypes == DOMAIN ADDRESS_PREFIX

\* ------------------------------------------------------------- JS numbers
\* A JS number is <<v>>; NaN is <<>>.
NaN == <<>>

Num(v) == <<v>>

IsNaN(x) == x = NaN

\* The subtraction with its operands swapped.
JsMinusSwapped(a, b) == IF IsNaN(a) \/ IsNaN(b) THEN NaN ELSE Num(b[1] - a[1])

\* a - b on JS numbers (BigNumber.minus(...).toNumber()).
JsMinus(a, b) == IF IsNaN(a) \/ IsNaN(b) THEN NaN ELSE Num(a[1] - b[1])

\* a + b on JS numbers.
JsPlus(a, b) == IF IsNaN(a) \/ IsNaN(b) THEN NaN ELSE Num(a[1] + b[1])

\* a === b on JS numbers: NaN equals nothing.
JsEq(a, b) == ~IsNaN(a) /\ ~IsNaN(b) /\ a[1] = b[1]

\* JS truthiness of a number: 0 and NaN are falsy.
Truthy(x) == ~IsNaN(x) /\ x[1] # 0

\* Optional values: <<>> is undefined/null, <<v>> is v.
Undefined == <<>>

Some(v) == <<v>>

IsDefined(x) == x # Undefined

RECURSIVE SumSeq(_)
SumSeq(s) == IF s = <<>> THEN 0 ELSE Head(s) + SumSeq(Tail(s))

\* The indices lo..hi-1 in ascending order (a for loop's iterations).
RangeSeq(lo, hi) == [i \in 1..(IF hi > lo THEN hi - lo ELSE 0) |-> lo + i - 1]

\* arr.find(p): the first element satisfying p, or undefined.
FindFirst(s, P(_)) ==
  LET hits == {i \in 1..Len(s) : P(s[i])}
  IN  IF hits = {} THEN Undefined
      ELSE Some(s[CHOOSE i \in hits : \A j \in hits : i <= j])

\* ------------------------------------------------------------------ state
VARIABLES
  addressType,     \* this.addressType, fixed at construction
  chain,           \* the provider's view: the wallet's unspent outputs
  ledgerKeyCache,  \* this.ledgerKeyCache: the set of [path, key] entries
  call,            \* the operation in progress or just completed, with its arguments
  result,          \* what that operation returned or threw
  trace,           \* the calls it made to the external collaborators, in order
  tasks            \* the async invocations in flight, each with its position

vars == <<addressType, chain, ledgerKeyCache, call, result, trace, tasks>>

\* ------------------------------------------------------ address derivation
\* ADDRESS_PREFIX[addressType]: undefined for a key the table does not have.
PrefixOf(t) == IF t \in DOMAIN ADDRESS_PREFIX THEN Some(ADDRESS_PREFIX[t]) ELSE Undefined

\* `${x}` in a template string: the decimal digits of a number, and the
\* word undefined for undefined.
TemplateString(x) == IF IsDefined(x) THEN ToString(x[1]) ELSE "undefined"

\* wallet.ts:28   this.derivationPath: the segments purpose', coinType', 0'
derivationPath == <<TemplateString(PrefixOf(addressType)), CoinType, 0>>

\* The device's answer for a path (ledger.getWalletPublicKey).
DeviceKey(path) == <<"xpub", path>>

\* wallet.ts:323  node.derivePath(subPath).publicKey
DerivePublicKey(changeVal, index) == <<"pub", changeVal, index>>

\* wallet.ts:190-210
getAddressFromPublicKey(publicKey) ==
  IF addressType = "legacy" THEN <<"p2pkh", publicKey>>
  ELSE IF addressType = "p2sh-segwit" THEN <<"p2sh-p2wpkh", publicKey>>
  ELSE IF addressType = "bech32" THEN <<"p2wpkh", publicKey>>
  ELSE Undefined

\* wallet.ts:321-328  one iteration of the derivation loop
DeriveAddress(currentIndex, change) ==
  LET changeVal == IF change THEN 1 ELSE 0
      publicKey == DerivePublicKey(changeVal, currentIndex)
  IN  [address        |-> getAddressFromPublicKey(publicKey),
       derivationPath |-> derivationPath \o <<changeVal, currentIndex>>,
       publicKey      |-> publicKey,
       index          |-> currentIndex,
       change         |-> change]

\* The loop of line 321 running up to and including lastIndex.
getLedgerAddressesInclusive(startingIndex, numAddresses, change) ==
  LET idx == RangeSeq(startingIndex, startingIndex + numAddresses + 1)
  IN  [i \in 1..Len(idx) |-> DeriveAddress(idx[i], change)]

\* wallet.ts:307-331 (the address list; the key lookup is CacheAfterScan)
getLedgerAddresses(startingIndex, numAddresses, change) ==
  LET lastIndex == startingIndex + numAddresses
      idx == RangeSeq(startingIndex, lastIndex)
  IN  [i \in 1..Len(idx) |-> DeriveAddress(idx[i], change)]

\* wallet.ts:35-37
getAddresses(startingIndex, numAddresses, change) ==
  getLedgerAddresses(startingIndex, numAddresses, change)

\* getAddressList with the non-change scan first.
getAddressListNonChangeFirst(numAddressPerCall) ==
  getAddresses(0, numAddressPerCall, FALSE) \o getAddresses(0, numAddressPerCall, TRUE)

\* wallet.ts:39-49
getAddressList(numAddressPerCall) ==
  getAddresses(0, numAddressPerCall, TRUE) \o getAddresses(0, numAddressPerCall, FALSE)

\* Address.equals: by address string.
AddrEquals(addr, str) == addr.address = str

\* wallet.ts:297-305  the cache after getWalletPublicKey(this.derivationPath)
CacheAfterScan(cache) ==
  IF \E e \in cache : e.path = derivationPath
  THEN cache
  ELSE cache \cup {[path |-> derivationPath, key |-> DeviceKey(derivationPath)]}

\* ---------------------------------------------------------------- provider
\* provider.getUnspentTransactions(addressList): the unspent outputs of the
\* listed addresses, in the provider's order.
getUnspentTransactions(addressList) ==
  SelectSeq(chain, LAMBDA u : \E i \in 1..Len(addressList) :
                                 AddrEquals(addressList[i], u.address))

\* ------------------------------------------------- used/unused classification
\* wallet.ts:113-126  the scan loop over the first k addresses of the list:
\* [used, change, nonChange] with the slots holding an address or undefined.
\* One iteration with the test of line 118 inverted (if (!isUsed)).
ScanStepInverted(prev, address, utxos) ==
  LET isUsed  == ~\E i \in 1..Len(utxos) : AddrEquals(address, utxos[i].address)
      slot    == IF address.change THEN prev.change ELSE prev.nonChange
      newSlot == IF isUsed THEN Undefined
                 ELSE IF ~IsDefined(slot) THEN Some(address) ELSE slot
  IN  [used      |-> IF isUsed THEN Append(prev.used, address) ELSE prev.used,
       change    |-> IF address.change THEN newSlot ELSE prev.change,
       nonChange |-> IF address.change THEN prev.nonChange ELSE newSlot]

\* The iteration of line 114-125 recording every address without UTXOs.
ScanStepLastUnused(prev, address, utxos) ==
  LET isUsed  == \E i \in 1..Len(utxos) : AddrEquals(address, utxos[i].address)
      newSlot == IF isUsed THEN Undefined ELSE Some(address)
  IN  [used      |-> IF isUsed THEN Append(prev.used, address) ELSE prev.used,
       change    |-> IF address.change THEN newSlot ELSE prev.change,
       nonChange |-> IF address.change THEN prev.nonChange ELSE newSlot]

\* wallet.ts:114-125  one iteration of the scan loop on the state
\* [used, change, nonChange], the slots holding an address or undefined.
ScanStep(prev, address, utxos) ==
  LET isUsed  == \E i \in 1..Len(utxos) : AddrEquals(address, utxos[i].address)
      slot    == IF address.change THEN prev.change ELSE prev.nonChange
      newSlot == IF isUsed THEN Undefined
                 ELSE IF ~IsDefined(slot) THEN Some(address) ELSE slot
  IN  [used      |-> IF isUsed THEN Append(prev.used, address) ELSE prev.used,
       change    |-> IF address.change THEN newSlot ELSE prev.change,
       nonChange |-> IF address.change THEN prev.nonChange ELSE newSlot]

\* wallet.ts:113-126  the iterations for addressList[lo..hi], in list order.
\* The range is halved, and the state after the first half is evaluated
\* before the second half starts, to keep the evaluation shallow.
RECURSIVE ScanRange(_, _, _, _, _)
ScanRange(state, addressList, utxos, lo, hi) ==
  IF lo > hi THEN state
  ELSE IF lo = hi THEN ScanStep(state, addressList[lo], utxos)
  ELSE LET mid  == (lo + hi) \div 2
           left == ScanRange(state, addressList, utxos, lo, mid)
       IN  IF Len(left.used) >= 0
           THEN ScanRange(left, addressList, utxos, mid + 1, hi)
           ELSE left

\* wallet.ts:106-126  the scan from its initial state
ScanUsedUnused(addressList, utxos) ==
  ScanRange([used |-> <<>>, change |-> Undefined, nonChange |-> Undefined],
            addressList, utxos, 1, Len(addressList))

\* addressList[0]: undefined on an empty list.
FirstOf(addressList) ==
  IF Len(addressList) = 0 THEN Undefined ELSE Some(addressList[1])

\* wallet.ts:128-134  the fallback for a slot the scan left empty
FallbackSlot(slot, addressList) ==
  IF ~IsDefined(slot) THEN FirstOf(addressList) ELSE slot

\* wallet.ts:105-137
getUsedUnusedAddresses(numAddressPerCall) ==
  LET addressList == getAddressList(numAddressPerCall)
      utxos       == getUnspentTransactions(addressList)
      scan        == ScanUsedUnused(addressList, utxos)
  IN  [usedAddresses |-> scan.used,
       unusedAddress |-> [change    |-> FallbackSlot(scan.change, addressList),
                          nonChange |-> FallbackSlot(scan.nonChange, addressList)],
       \* kept for the properties: the list, the provider's answer, the scan
       addressList   |-> addressList,
       utxos         |-> utxos,
       scanned       |-> [change |-> scan.change, nonChange |-> scan.nonChange]]

\* ---------------------------------------------------------- coin selection
\* Values a caller hands over as `amount`: a number, or (from
\* _buildTransaction) the array of payment requests.
JsNumber(v) == [type |-> "number", num |-> Num(v)]

JsArray(items) == [type |-> "array", items |-> items]

\* Number(amount): an array converts through its string form, so an empty
\* array gives 0 and an array of objects gives NaN.
ToNumber(x) ==
  IF x.type = "number" THEN x.num
  ELSE IF Len(x.items) = 0 THEN Num(0) ELSE NaN

\* new BigNumber(amount): the string form of any array is not a number.
ToBigNumber(x) == IF x.type = "number" THEN x.num ELSE NaN

\* wallet.ts:217-224
UpdatedUtxos(addrList, utxos) ==
  [i \in 1..Len(utxos) |->
     LET utxo == utxos[i]
         addr == FindFirst(addrList, LAMBDA a : AddrEquals(a, utxo.address))
     IN  [txid           |-> utxo.txid,
          vout           |-> utxo.vout,
          amount         |-> utxo.amount,
          address        |-> utxo.address,
          value          |-> utxo.amount * SatPerCoin,
          derivationPath |-> addr[1].derivationPath]]

\* The elements of s at the indices in I, in order.
Pick(s, I) ==
  LET F[k \in 0..Len(s)] ==
        IF k = 0 THEN <<>>
        ELSE IF k \in I THEN Append(F[k - 1], s[k]) ELSE F[k - 1]
  IN  F[Len(s)]

SumValues(inputs) == SumSeq([i \in 1..Len(inputs) |-> inputs[i].value])

Fees == 0..MaxFee

\* The requested output as coinselect gets it and hands it back.
MainOutput(target) == [id |-> Some("main"), value |-> target]

\* An output coinselect adds for the remainder: it carries no id.
ExtraOutput(v) == [id |-> Undefined, value |-> Num(v)]

\* coinselect(utxos, [{id: 'main', value: target}], feeRate): the answers the
\* library may give.  Without inputs it reports a fee only.  With inputs, for
\* a target that is a non-negative integer, the inputs' values equal the
\* requested output plus the fee plus at most one added remainder output.
\* For any other target (NaN, negative) the library's contract says nothing:
\* the answer is left open, with any inputs and with or without an added
\* output.
Coinselect(utxos, target, feeRate) ==
  LET failures == {[inputs |-> Undefined, outputs |-> Undefined, fee |-> Num(f)] : f \in Fees}
      chosen   == {Pick(utxos, I) : I \in (SUBSET (1..Len(utxos))) \ {{}}}
      inContract == ~IsNaN(target) /\ target[1] >= 0
      Answer(S, f, extra) ==
        [inputs  |-> Some(S),
         outputs |-> Some(<<MainOutput(target)>> \o extra),
         fee     |-> Num(f)]
      balanced ==
        {Answer(S, f, <<>>) :
           <<S, f>> \in {sf \in chosen \X Fees :
                           SumValues(sf[1]) - target[1] = sf[2]}}
        \cup
        {Answer(sf[1], sf[2], <<ExtraOutput(SumValues(sf[1]) - target[1] - sf[2])>>) :
           sf \in {sf \in chosen \X Fees :
                     SumValues(sf[1]) - target[1] - sf[2] > 0}}
      open ==
        {Answer(S, 0, <<>>) : S \in chosen}
        \cup {Answer(S, 0, <<ExtraOutput(SumValues(S))>>) : S \in chosen}
  IN  failures \cup (IF inContract THEN balanced ELSE open)

\* getInputs taking the requested output for the change (output.id === 'main').
getInputsMainAsChange(answer, amount) ==
  IF IsDefined(answer.inputs) /\ IsDefined(answer.outputs)
  THEN [inputs |-> answer.inputs,
        change |-> FindFirst(answer.outputs[1], LAMBDA output : output.id = Some("main")),
        fee    |-> answer.fee,
        amount |-> amount]
  ELSE [inputs |-> Undefined, change |-> Undefined,
        fee |-> answer.fee, amount |-> amount]

\* wallet.ts:246-262  getInputs, given what coinselect answered
getInputs(answer, amount) ==
  IF IsDefined(answer.inputs) /\ IsDefined(answer.outputs)
  THEN [inputs |-> answer.inputs,
        change |-> FindFirst(answer.outputs[1], LAMBDA output : output.id # Some("main")),
        fee    |-> answer.fee,
        amount |-> amount]
  ELSE [inputs |-> Undefined, change |-> Undefined,
        fee |-> answer.fee, amount |-> amount]

\* wallet.ts:226  !feePerByte
MustFetchFee(feePerByte) == ~IsDefined(feePerByte) \/ feePerByte[1] = 0

\* Rates provider.getFeePerByte() may answer.
ProviderRates == {1}

\* The retry's outcome without the test of line 238.
RetryOutcomeUnchecked(fixedResult, trace2) ==
  [status |-> "ok", value |-> fixedResult, trace |-> trace2]

\* wallet.ts:238-243  the outcome of the retry
RetryOutcome(fixedResult, trace2) ==
  IF IsDefined(fixedResult.inputs)
  THEN [status |-> "ok", value |-> fixedResult, trace |-> trace2]
  ELSE [status |-> "NOT_ENOUGHT_BALANCE", trace |-> trace2]

CoinselectCall(utxos, target, feeRate, answer) ==
  <<"coinselect", utxos, target, feeRate, answer>>

\* wallet.ts:230-243  the two selection attempts at a given rate: the set of
\* outcomes [status, value, trace], one per answer of coinselect.
SelectWithRetry(updatedUtxos, amount, feePerByte, trace0) ==
  UNION {
    LET firstResult == getInputs(a1, ToNumber(amount))
        trace1 == Append(trace0, CoinselectCall(updatedUtxos, ToNumber(amount), feePerByte, a1))
    IN  IF IsDefined(firstResult.inputs)
        THEN {[status |-> "ok", value |-> firstResult, trace |-> trace1]}
        ELSE
          LET fixedAmount == JsMinus(ToBigNumber(amount), firstResult.fee)
          IN  {LET fixedResult == getInputs(a2, fixedAmount)
                   trace2 == Append(trace1, CoinselectCall(updatedUtxos, fixedAmount, feePerByte, a2))
               IN  RetryOutcome(fixedResult, trace2)
               : a2 \in Coinselect(updatedUtxos, fixedAmount, feePerByte)}
    : a1 \in Coinselect(updatedUtxos, ToNumber(amount), feePerByte)}

\* wallet.ts:212-244  the set of outcomes of getInputsForAmount
getInputsForAmount(amount, feePerByte, numAddressPerCall) ==
  LET addrList     == getAddressList(numAddressPerCall)
      utxos        == getUnspentTransactions(addrList)
      updatedUtxos == UpdatedUtxos(addrList, utxos)
      trace0       == <<<<"getUnspentTransactions", Len(addrList)>>>>
  IN  IF MustFetchFee(feePerByte)
      THEN LET trace1 == Append(trace0, <<"getFeePerByte">>)
           IN  {[status |-> "FeeRateUnavailable", trace |-> trace1]}
               \cup UNION {SelectWithRetry(updatedUtxos, amount, rate, trace1) :
                             rate \in ProviderRates}
      ELSE SelectWithRetry(updatedUtxos, amount, feePerByte[1], trace0)

\* ------------------------------------------------------ transaction assembly
\* The digits of amount.toString(16), most significant first.
RECURSIVE HexDigits(_)
HexDigits(n) == IF n < 16 THEN <<n>> ELSE Append(HexDigits(n \div 16), n % 16)

\* wallet.ts:264-269
padHexStart(hex, length) ==
  LET len0 == IF length # 0 THEN length ELSE Len(hex)
      len  == len0 + (len0 % 2)
  IN  IF Len(hex) >= len THEN hex
      ELSE [i \in 1..(len - Len(hex)) |-> 0] \o hex

\* Buffer.from(hex, 'hex'): one byte per pair of digits.
BufferFromHex(hex) ==
  [i \in 1..(Len(hex) \div 2) |-> hex[2 * i - 1] * 16 + hex[2 * i]]

Reverse(s) == [i \in 1..Len(s) |-> s[Len(s) + 1 - i]]

\* wallet.ts:271-277  the amount as 8 bytes, least significant first
getAmountBuffer(amount) ==
  Reverse(BufferFromHex(padHexStart(HexDigits(amount), 16)))

\* payments.embed({data: [Buffer.from(`J_${data.eventName}`)]}).output
EmbedScript(eventName) == <<"OP_RETURN", <<"J_", eventName>>>>

\* address.toOutputScript(to, network)
toOutputScript(to) == <<"script", to>>

\* provider.getRawTransaction(txid) and ledger.splitTransaction(hex, true)
RawTransaction(txid) == <<"raw", txid>>

splitTransaction(hex) == <<"split", hex>>

\* ledger.serializeTransactionOutputs(tx)
serializeTransactionOutputs(tx) == <<"serialized", tx.outputs>>

\* What createPaymentTransactionNew returns for its arguments.
SignedTransaction(args) == <<"signed", args>>

\* wallet.ts:279-289  the calls issued, and the list Promise.all resolves to
RawTransactionCalls(utxos) ==
  [i \in 1..Len(utxos) |-> <<"getRawTransaction", utxos[i].txid>>]

getLedgerInputs(utxos) ==
  [i \in 1..Len(utxos) |->
     <<splitTransaction(RawTransaction(utxos[i].txid)), utxos[i].vout>>]

\* wallet.ts:361-375  the outputs the map callback builds for the payments:
\* the first one takes amountWithoutFee when that is truthy.
PaymentOutputs(outputs, amountWithoutFee) ==
  [i \in 1..Len(outputs) |->
     [amount |-> getAmountBuffer(IF i = 1 /\ Truthy(amountWithoutFee)
                                 THEN amountWithoutFee[1]
                                 ELSE outputs[i].value),
      script |-> toOutputScript(outputs[i].to)]]

\* wallet.ts:345-358  the metadata output, present when data is given
MetadataOutputs(data) ==
  IF IsDefined(data)
  THEN <<[amount |-> getAmountBuffer(0), script |-> EmbedScript(data[1].eventName)]>>
  ELSE <<>>

\* wallet.ts:355-357  data after the call
DataAfter(data, amountWithoutFee) ==
  IF IsDefined(data) /\ Truthy(amountWithoutFee)
  THEN Some([data[1] EXCEPT !.inputAmount = amountWithoutFee[1]])
  ELSE data

\* wallet.ts:360-376  ledgerOutputs after the concat statement: concat
\* returns a new array, which the statement drops.
AfterConcat(ledgerOutputs, paymentOutputs) == ledgerOutputs

\* wallet.ts:378-383  the change output
WithChange(ledgerOutputs, change, unusedAddress) ==
  IF IsDefined(change)
  THEN Append(ledgerOutputs,
              [amount |-> getAmountBuffer(change[1].value[1]),
               script |-> toOutputScript(unusedAddress.address)])
  ELSE ledgerOutputs

\* wallet.ts:385  serializeTransactionOutputs({ outputs }): the object's
\* outputs property is the method's parameter, the payment requests.
SerializedOutputs(outputs, ledgerOutputs) ==
  serializeTransactionOutputs([outputs |-> outputs])

\* wallet.ts:338-397  _buildTransaction after a successful selection
Assemble(outputs, data, unusedAddress, selection, trace0) ==
  LET inputs           == selection.inputs[1]
      amountWithoutFee == selection.amount
      ledgerInputs     == getLedgerInputs(inputs)
      paths            == [i \in 1..Len(inputs) |-> inputs[i].derivationPath]
      paymentOutputs   == PaymentOutputs(outputs, amountWithoutFee)
      ledgerOutputs    == WithChange(AfterConcat(MetadataOutputs(data), paymentOutputs),
                                     selection.change, unusedAddress)
      serializedOutputs == SerializedOutputs(outputs, ledgerOutputs)
      args == [inputs            |-> ledgerInputs,
               paths             |-> paths,
               changePath        |-> unusedAddress.derivationPath,
               outputScriptHex   |-> serializedOutputs,
               segwit            |-> addressType \in {"bech32", "p2sh-segwit"},
               additionals       |-> IF addressType = "bech32" THEN <<"bech32">> ELSE Undefined]
  IN  [status         |-> "ok",
       value          |-> SignedTransaction(args),
       selection      |-> selection,
       unusedAddress  |-> unusedAddress,
       ledgerOutputs  |-> ledgerOutputs,
       paymentOutputs |-> paymentOutputs,
       data           |-> DataAfter(data, amountWithoutFee),
       trace          |-> trace0 \o RawTransactionCalls(inputs)
                           \o <<<<"serializeTransactionOutputs", [outputs |-> outputs]>>,
                                <<"createPaymentTransactionNew", args>>>>]

\* wallet.ts:333-398  the set of outcomes of _buildTransaction; feePerByte is
\* not handed on to getInputsForAmount, which gets the payment list as amount.
buildTransaction(outputs, data, feePerByte) ==
  LET classified    == getUsedUnusedAddresses(DefaultNumAddressPerCall)
      unusedAddress == classified.unusedAddress.change[1]
      trace0        == <<<<"getUnspentTransactions", Len(classified.addressList)>>>>
  IN  {IF sel.status = "ok"
       THEN Assemble(outputs, data, unusedAddress, sel.value, trace0 \o sel.trace)
       ELSE [status |-> sel.status, trace |-> trace0 \o sel.trace]
       : sel \in getInputsForAmount(JsArray(outputs), Undefined, DefaultNumAddressPerCall)}

\* ------------------------------------------------------- address lookup
\* wallet.ts:55-69  the while loop of getWalletAddress from (index, change) on;
\* windows lists the getAddresses calls made so far.
RECURSIVE WalletAddressLoop(_, _, _, _, _, _)
WalletAddressLoop(address, maxAddresses, addressesPerCall, index, change, windows) ==
  IF ~(index < maxAddresses)
  THEN [status |-> "ADDRESS_MISSING_IN_LEDGER", windows |-> windows]
  ELSE
    LET addresses == getAddresses(index, addressesPerCall, change)
        addr      == FindFirst(addresses, LAMBDA a : AddrEquals(a, address))
        seen      == Append(windows, [start  |-> index,
                                      count  |-> addressesPerCall,
                                      change |-> change])
        next      == index + addressesPerCall
        switch    == next = maxAddresses /\ ~change
    IN  IF IsDefined(addr)
        THEN [status |-> "ok", value |-> addr[1], windows |-> seen]
        ELSE WalletAddressLoop(address, maxAddresses, addressesPerCall,
                               IF switch THEN 0 ELSE next,
                               IF switch THEN TRUE ELSE change,
                               seen)

\* wallet.ts:51-72
getWalletAddress(address, maxAddresses, addressesPerCall) ==
  WalletAddressLoop(address, maxAddresses, addressesPerCall, 0, FALSE, <<>>)

\* ------------------------------------------------------------------- Init
Idle == [name |-> "idle"]

\* The owners of the wallet's unspent outputs: both branches, indices 0 and 1.
OwnerIndices == {0, 1}

Owners == {<<c, i>> : c \in BOOLEAN, i \in OwnerIndices}

\* The i-th unspent output of the provider, worth i whole coins: utxo.amount
\* is in coins and utxo.value is the same in satoshi.
Utxo(i, owner) ==
  [txid    |-> i,
   vout    |-> 0,
   amount  |-> i,
   value   |-> i * SatPerCoin,
   address |-> DeriveAddress(owner[2], owner[1]).address]

Init ==
  /\ addressType \in AddressTypes
  /\ \E n \in 0..MaxUtxos :
       \E owners \in [1..n -> Owners] :
         chain = [i \in 1..n |-> Utxo(i, owners[i])]
  /\ ledgerKeyCache = {}
  /\ call = Idle
  /\ result = Idle
  /\ trace = <<>>
  /\ tasks = <<>>

\* ---------------------------------------------------------------- actions
\* wallet.ts:105-137  getUsedUnusedAddresses(numAddressPerCall)
GetUsedUnusedAddresses ==
  /\ call = Idle
  /\ \E n \in 0..MaxBatch :
       /\ call' = [name |-> "getUsedUnusedAddresses", numAddressPerCall |-> n]
       /\ result' = [status |-> "ok", value |-> getUsedUnusedAddresses(n)]
       /\ trace' = <<<<"getUnspentTransactions", Len(getAddressList(n))>>>>
  /\ ledgerKeyCache' = CacheAfterScan(ledgerKeyCache)
  /\ UNCHANGED <<addressType, chain, tasks>>

\* Addresses a caller may look up: the wallet's own on both branches, up to
\* two indices past the largest maxAddresses, and one that is not the wallet's.
LookupTargets ==
  {DeriveAddress(i, c).address : i \in 0..(MaxBatch + 2), c \in BOOLEAN}
    \cup {<<"foreign">>}

\* wallet.ts:51-72  getWalletAddress(address, maxAddresses, addressesPerCall)
GetWalletAddress ==
  /\ call = Idle
  /\ \E address \in LookupTargets, maxAddresses \in 1..(MaxBatch + 1),
        addressesPerCall \in 1..MaxBatch :
       /\ call' = [name |-> "getWalletAddress", address |-> address,
                   maxAddresses |-> maxAddresses,
                   addressesPerCall |-> addressesPerCall]
       /\ result' = getWalletAddress(address, maxAddresses, addressesPerCall)
  /\ trace' = <<>>
  /\ ledgerKeyCache' = CacheAfterScan(ledgerKeyCache)
  /\ UNCHANGED <<addressType, chain, tasks>>

\* Amounts and fee rates a caller passes to getInputsForAmount.
AmountArgs == {JsNumber(k * SatPerCoin) : k \in {1, 3}}

FeeArgs == {Undefined, Some(2)}

\* wallet.ts:212-244  getInputsForAmount(amount, feePerByte, numAddressPerCall)
GetInputsForAmount ==
  /\ call = Idle
  /\ \E amount \in AmountArgs, feePerByte \in FeeArgs, n \in 1..MaxBatch :
       \E out \in getInputsForAmount(amount, feePerByte, n) :
         /\ call' = [name |-> "getInputsForAmount", amount |-> amount,
                     feePerByte |-> feePerByte, numAddressPerCall |-> n]
         /\ result' = IF out.status = "ok"
                      THEN [status |-> "ok", value |-> out.value]
                      ELSE [status |-> out.status]
         /\ trace' = out.trace
  /\ ledgerKeyCache' = CacheAfterScan(ledgerKeyCache)
  /\ UNCHANGED <<addressType, chain, tasks>>

\* Payment lists, metadata and fee rates a caller passes to _buildTransaction.
Payment == [to |-> <<"destination">>, value |-> SatPerCoin]

PaymentLists == {[i \in 1..n |-> Payment] : n \in 1..MaxPayments}

DataArgs == {Undefined, Some([eventName |-> "NEW_CONTRACT", inputAmount |-> SatPerCoin])}

\* wallet.ts:333-398  _buildTransaction(outputs, data, feePerByte)
BuildTransaction ==
  /\ call = Idle
  /\ \E outputs \in PaymentLists, data \in DataArgs, feePerByte \in FeeArgs :
       \E out \in buildTransaction(outputs, data, feePerByte) :
         /\ call' = [name |-> "buildTransaction", outputs |-> outputs,
                     data |-> data, feePerByte |-> feePerByte]
         /\ result' = [f \in (DOMAIN out) \ {"trace"} |-> out[f]]
         /\ trace' = out.trace
  /\ ledgerKeyCache' = CacheAfterScan(ledgerKeyCache)
  /\ UNCHANGED <<addressType, chain, tasks>>

\* The caller takes the result; everything but the key cache is discarded.
Return ==
  /\ call # Idle
  /\ call' = Idle
  /\ result' = Idle
  /\ trace' = <<>>
  /\ UNCHANGED <<addressType, chain, ledgerKeyCache, tasks>>

Next ==
  \/ GetUsedUnusedAddresses
  \/ GetWalletAddress
  \/ GetInputsForAmount
  \/ BuildTransaction
  \/ Return

Spec == Init /\ [][Next]_vars

\* ------------------------------------------------------------- properties
\* Ground truth on the provider's side: some unspent output pays this address.
HasUtxo(addr) == \E i \in 1..Len(chain) : chain[i].address = addr.address

\* The classification a completed getUsedUnusedAddresses call returned.
Classified == call.name = "getUsedUnusedAddresses" /\ result.status = "ok"

Keys == {"change", "nonChange"}

\* Every address of the branch within the batch has an unspent output.
BranchAllUsed(key, n) ==
  \A i \in 0..(n - 1) : HasUtxo(DeriveAddress(i, key = "change"))

\* The last address of the branch within the batch has an unspent output
\* (or the batch is empty): the scan ends with the branch's slot empty.
BranchEndsUsed(key, n) ==
  n = 0 \/ HasUtxo(DeriveAddress(n - 1, key = "change"))

UsedHaveUtxo ==
  \A i \in 1..Len(result.value.usedAddresses) : HasUtxo(result.value.usedAddresses[i])

\* C8 (as stated): every used address has an unspent output, and each slot of
\* the unused pair either has none or is index 0 of the address list, put
\* there by the fallback because its branch had no unused address in the batch.
C8_PartitionAsStated ==
  Classified =>
    /\ UsedHaveUtxo
    /\ \A key \in Keys :
         LET slot == result.value.unusedAddress[key]
         IN  \/ IsDefined(slot) /\ ~HasUtxo(slot[1])
             \/ /\ slot = FirstOf(result.value.addressList)
                /\ BranchAllUsed(key, call.numAddressPerCall)

\* C8 (amended): every used address has an unspent output, and each slot of
\* the unused pair either has none or is index 0 of the address list, put
\* there by the fallback because the branch has no address without unspent
\* outputs after its last used one (its last address in the batch is used).
C8_Partition ==
  Classified =>
    /\ UsedHaveUtxo
    /\ \A key \in Keys :
         LET slot == result.value.unusedAddress[key]
         IN  \/ IsDefined(slot) /\ ~HasUtxo(slot[1])
             \/ /\ slot = FirstOf(result.value.addressList)
                /\ BranchEndsUsed(key, call.numAddressPerCall)

\* A classification with a used address where the non-change slot got the
\* fallback and thereby an address that has an unspent output.
C8_Witness ==
  /\ Classified
  /\ Len(result.value.usedAddresses) > 0
  /\ IsDefined(result.value.unusedAddress["nonChange"])
  /\ HasUtxo(result.value.unusedAddress["nonChange"][1])
  /\ IsDefined(result.value.unusedAddress["change"])
  /\ ~HasUtxo(result.value.unusedAddress["change"][1])

\* C9: both slots of the unused pair returned by getUsedUnusedAddresses are
\* addresses, for every batch size including 0.
C9_NeverNull ==
  Classified =>
    \A key \in Keys : IsDefined(result.value.unusedAddress[key])

\* A completed getWalletAddress call.
LookedUp == call.name = "getWalletAddress"

\* The target is the wallet's address at some index below maxAddresses.
TargetInRange ==
  \E i \in 0..(call.maxAddresses - 1), c \in BOOLEAN :
    DeriveAddress(i, c).address = call.address

\* The windows scanned on a branch cover every index below maxAddresses.
BranchExhausted(c) ==
  \A i \in 0..(call.maxAddresses - 1) :
    \E k \in 1..Len(result.windows) :
      LET w == result.windows[k]
      IN  w.change = c /\ w.start <= i /\ i < w.start + w.count

\* C10: getWalletAddress scans the non-change branch and then the change
\* branch, each only over indices below maxAddresses; it returns the target
\* whenever the target is derived below maxAddresses on either branch, and
\* otherwise throws ADDRESS_MISSING_IN_LEDGER after exhausting both branches.
C10_FindsWithinRange ==
  LookedUp =>
    /\ \A k \in 1..Len(result.windows) :
         LET w == result.windows[k]
         IN  /\ w.start + w.count <= call.maxAddresses
             /\ \A j \in 1..k : result.windows[j].change => w.change
    /\ TargetInRange =>
         result.status = "ok" /\ result.value.address = call.address
    /\ ~TargetInRange =>
         /\ result.status = "ADDRESS_MISSING_IN_LEDGER"
         /\ BranchExhausted(FALSE)
         /\ BranchExhausted(TRUE)

\* The coinselect invocations of the operation, in order, and their parts.
CoinselectCalls == SelectSeq(trace, LAMBDA c : c[1] = "coinselect")

CsUtxos(c) == c[2]

CsTarget(c) == c[3]

CsRate(c) == c[4]

CsAnswer(c) == c[5]

HasInputs(c) == CsAnswer(c).inputs # <<>>

\* A completed direct call of getInputsForAmount.
Selected == call.name = "getInputsForAmount"

\* x - y as the claim means it, NaN when either side is NaN.
Difference(x, y) == IF x = <<>> \/ y = <<>> THEN <<>> ELSE <<x[1] - y[1]>>

\* C5: within one getInputsForAmount call coinselect is invoked at most
\* twice; a second invocation happens only after a first one that returned no
\* inputs, with the same UTXO set and fee rate and with the first target
\* minus the fee the first attempt reported as its target.
C5_RetryOnce ==
  LET calls == CoinselectCalls
  IN  /\ Len(calls) <= 2
      /\ Len(calls) = 2 =>
           /\ ~HasInputs(calls[1])
           /\ CsUtxos(calls[2]) = CsUtxos(calls[1])
           /\ CsRate(calls[2]) = CsRate(calls[1])
           /\ CsTarget(calls[2]) = Difference(CsTarget(calls[1]), CsAnswer(calls[1]).fee)
      /\ (Selected /\ Len(calls) >= 1) => CsTarget(calls[1]) = call.amount.num

\* A retry that ran against a target lowered by a positive fee and succeeded.
C5_Witness ==
  /\ Selected
  /\ Len(CoinselectCalls) = 2
  /\ CsAnswer(CoinselectCalls[1]).fee[1] > 0
  /\ CsTarget(CoinselectCalls[2])[1] < CsTarget(CoinselectCalls[1])[1]
  /\ HasInputs(CoinselectCalls[2])

\* C6: getInputsForAmount throws NOT_ENOUGHT_BALANCE exactly when both the
\* nominal attempt and the fee-adjusted retry returned no inputs; otherwise
\* it returns the inputs and fee of the first attempt that returned inputs,
\* with that attempt's target as the recorded amount.
C6_InsufficientIffBothFail ==
  Selected =>
    LET calls == CoinselectCalls
    IN  /\ result.status = "NOT_ENOUGHT_BALANCE" <=>
             (Len(calls) = 2 /\ ~HasInputs(calls[1]) /\ ~HasInputs(calls[2]))
        /\ (Len(calls) >= 1 /\ \E k \in 1..Len(calls) : HasInputs(calls[k])) =>
             LET k == CHOOSE k \in 1..Len(calls) :
                        HasInputs(calls[k]) /\ \A j \in 1..(k - 1) : ~HasInputs(calls[j])
             IN  /\ result.status = "ok"
                 /\ result.value.inputs = CsAnswer(calls[k]).inputs
                 /\ result.value.fee = CsAnswer(calls[k]).fee
                 /\ result.value.amount = CsTarget(calls[k])

\* Both attempts ran and neither returned inputs.
C6_Witness ==
  /\ Selected
  /\ result.status = "NOT_ENOUGHT_BALANCE"
  /\ Len(CoinselectCalls) = 2
  /\ Len(CsUtxos(CoinselectCalls[1])) > 0

\* The sum of the values of a list of inputs or outputs, NaN if one is NaN.
RECURSIVE Total(_)
Total(s) ==
  IF s = <<>> THEN <<0>>
  ELSE LET rest == Total(Tail(s))
       IN  IF Head(s) = <<>> \/ rest = <<>> THEN <<>> ELSE <<Head(s)[1] + rest[1]>>

InputTotal(inputs) == Total([i \in 1..Len(inputs) |-> <<inputs[i].value>>])

\* What coinselect answered balances: inputs = outputs + fee.
Balanced(answer) ==
  LET outs == Total([i \in 1..Len(answer.outputs[1]) |-> answer.outputs[1][i].value])
  IN  /\ outs # <<>>
      /\ answer.fee # <<>>
      /\ InputTotal(answer.inputs[1]) = <<outs[1] + answer.fee[1]>>

\* The answer of the last coinselect invocation of a successful selection.
LastAnswer == CsAnswer(CoinselectCalls[Len(CoinselectCalls)])

\* C7: every successful result of getInputsForAmount, the retry's included,
\* conserves value when coinselect's answer balances: the chosen inputs sum
\* to the recorded amount plus the fee plus the change (0 when absent).
C7_Conservation ==
  (Selected /\ result.status = "ok" /\ Balanced(LastAnswer)) =>
    LET r == result.value
        changeValue == IF r.change = <<>> THEN <<0>> ELSE r.change[1].value
    IN  /\ r.amount # <<>> /\ r.fee # <<>> /\ changeValue # <<>>
        /\ InputTotal(r.inputs[1]) = <<r.amount[1] + r.fee[1] + changeValue[1]>>

\* A successful retry whose answer balances and leaves a change.
C7_Witness ==
  /\ Selected
  /\ result.status = "ok"
  /\ Len(CoinselectCalls) = 2
  /\ Balanced(LastAnswer)
  /\ result.value.change # <<>>
  /\ result.value.fee[1] > 0

\* A _buildTransaction call, and one that reached the signer.
Building == call.name = "buildTransaction"

Built == Building /\ result.status = "ok"

SignerCalls == SelectSeq(trace, LAMBDA c : c[1] = "createPaymentTransactionNew")

FeeFetches == SelectSeq(trace, LAMBDA c : c[1] = "getFeePerByte")

\* C1: the assembled output list is the zero-value metadata output (present
\* iff metadata is supplied), then one output per requested payment in
\* request order, then the change output paying the unused change address
\* (present iff there is change), and nothing else.
C1_OutputList ==
  Built =>
    LET lo == result.ledgerOutputs
        m  == IF call.data # <<>> THEN 1 ELSE 0
        n  == Len(call.outputs)
        c  == IF result.selection.change # <<>> THEN 1 ELSE 0
    IN  /\ Len(lo) = m + n + c
        /\ m = 1 =>
             /\ lo[1].script = EmbedScript(call.data[1].eventName)
             /\ lo[1].amount = <<0, 0, 0, 0, 0, 0, 0, 0>>
        /\ \A i \in 1..n : lo[m + i].script = toOutputScript(call.outputs[i].to)
        /\ c = 1 =>
             lo[m + n + 1].script = toOutputScript(result.unusedAddress.address)

\* C2: the outputs serialized for createPaymentTransactionNew are the
\* assembled output list, not the caller's payment requests.
C2_SignerGetsAssembled ==
  Built =>
    /\ Len(SignerCalls) = 1
    /\ SignerCalls[1][2].outputScriptHex =
         serializeTransactionOutputs([outputs |-> result.ledgerOutputs])

\* C3: the target _buildTransaction hands to the selection is the numeric
\* sum of the requested payment amounts.
C3_TargetIsPaymentSum ==
  (Building /\ Len(CoinselectCalls) >= 1) =>
    CsTarget(CoinselectCalls[1]) =
      <<SumSeq([i \in 1..Len(call.outputs) |-> call.outputs[i].value])>>

\* C4: with feePerByte passed to _buildTransaction that rate goes to
\* coinselect and provider.getFeePerByte is not called; without it the
\* provider's rate is used, and a failure to fetch it reaches the caller.
C4_ExplicitFeeRateUsed ==
  Building =>
    /\ call.feePerByte # <<>> =>
         /\ Len(FeeFetches) = 0
         /\ \A k \in 1..Len(CoinselectCalls) :
              CsRate(CoinselectCalls[k]) = call.feePerByte[1]
    /\ call.feePerByte = <<>> =>
         /\ Len(FeeFetches) = 1
         /\ \A k \in 1..Len(CoinselectCalls) :
              CsRate(CoinselectCalls[k]) \in ProviderRates
         /\ Len(CoinselectCalls) = 0 => result.status = "FeeRateUnavailable"

\* ------------------------------------------- the key cache under overlap
\* Most getWalletPublicKey invocations in flight in one behaviour.
MaxTasks == 2

\* Paths getWalletPublicKey is called with: the account path every scan
\* uses (wallet.ts:308), and a second one a direct caller passes.
KeyPaths == {derivationPath, derivationPath \o <<0>>}

\* wallet.ts:298  path in this.ledgerKeyCache
InCache(cache, path) == \E e \in cache : e.path = path

\* wallet.ts:299  this.ledgerKeyCache[path]
CachedKey(cache, path) == (CHOOSE e \in cache : e.path = path).key

\* wallet.ts:303  this.ledgerKeyCache[path] = key
CachePut(cache, path, key) ==
  {e \in cache : e.path # path} \cup {[path |-> path, key |-> key]}

\* wallet.ts:293  the format handed to the device
DeviceFormat == IF addressType = "p2sh-segwit" THEN "p2sh" ELSE addressType

\* The test of line 298 answering "absent" whatever the cache holds.
CacheLookupBlind(cache, path) == Undefined

\* wallet.ts:298-300  the cached response, or undefined on a miss
CacheLookup(cache, path) ==
  IF InCache(cache, path) THEN Some(CachedKey(cache, path)) ELSE Undefined

\* The position of an invocation after the test of line 298.
AfterLookup(task, hit) ==
  IF IsDefined(hit)
  THEN [task EXCEPT !.pc = "done", !.value = hit]
  ELSE [task EXCEPT !.pc = "instance"]

\* A caller invokes getWalletPublicKey(path); the body has not run yet.
KeyCall ==
  /\ Len(tasks) < MaxTasks
  /\ \E path \in KeyPaths :
       tasks' = Append(tasks, [op |-> "getWalletPublicKey", path |-> path,
                               pc |-> "check", value |-> Undefined,
                               wrote |-> FALSE])
  /\ UNCHANGED <<addressType, chain, ledgerKeyCache, call, result, trace>>

\* wallet.ts:298-302, 292  the test of the cache: a hit returns the entry, a
\* miss goes on to _getWalletPublicKey, which first awaits the device instance.
KeyCheck ==
  /\ \E t \in 1..Len(tasks) :
       /\ tasks[t].pc = "check"
       /\ tasks' = [tasks EXCEPT
                      ![t] = AfterLookup(tasks[t], CacheLookup(ledgerKeyCache, tasks[t].path))]
  /\ UNCHANGED <<addressType, chain, ledgerKeyCache, call, result, trace>>

\* wallet.ts:293-294  the instance is there: the device is asked for the key.
KeyAskDevice ==
  /\ \E t \in 1..Len(tasks) :
       /\ tasks[t].pc = "instance"
       /\ tasks' = [tasks EXCEPT ![t].pc = "device"]
       /\ trace' = Append(trace, <<"getWalletPublicKey", tasks[t].path, DeviceFormat>>)
  /\ UNCHANGED <<addressType, chain, ledgerKeyCache, call, result>>

\* wallet.ts:302-304  the device answered: the key is stored and returned.
KeyStore ==
  /\ \E t \in 1..Len(tasks) :
       /\ tasks[t].pc = "device"
       /\ ledgerKeyCache' = CachePut(ledgerKeyCache, tasks[t].path, DeviceKey(tasks[t].path))
       /\ tasks' = [tasks EXCEPT ![t].pc = "done",
                                 ![t].value = Some(DeviceKey(tasks[t].path)),
                                 ![t].wrote = TRUE]
  /\ UNCHANGED <<addressType, chain, call, result, trace>>

\* wallet.ts:292-294, 302  the device cannot be reached or refuses: the await
\* throws and nothing is stored.
KeyDeviceFails ==
  /\ \E t \in 1..Len(tasks) :
       /\ tasks[t].pc \in {"instance", "device"}
       /\ tasks' = [tasks EXCEPT ![t].pc = "failed"]
  /\ UNCHANGED <<addressType, chain, ledgerKeyCache, call, result, trace>>

InitKeys ==
  /\ addressType \in AddressTypes
  /\ chain = <<>>
  /\ ledgerKeyCache = {}
  /\ call = Idle
  /\ result = Idle
  /\ trace = <<>>
  /\ tasks = <<>>

NextKeys ==
  \/ KeyCall
  \/ KeyCheck
  \/ KeyAskDevice
  \/ KeyStore
  \/ KeyDeviceFails

SpecKeys == InitKeys /\ [][NextKeys]_vars

\* The device's getWalletPublicKey invocations for a path, and the
\* invocations of the wallet's getWalletPublicKey that stored a key for it.
DeviceAsks(path) ==
  Len(SelectSeq(trace, LAMBDA c : c[1] = "getWalletPublicKey" /\ c[2] = path))

CacheWrites(path) ==
  Cardinality({t \in 1..Len(tasks) : tasks[t].path = path /\ tasks[t].wrote})

\* C11: under any interleaving of concurrent getWalletPublicKey calls for the
\* same path, the cache entry of the path is written at most once and the
\* device is asked for the path at most once.
C11_WriteOnce ==
  \A path \in KeyPaths : DeviceAsks(path) <= 1 /\ CacheWrites(path) <= 1

\* C12: once a key is cached for a path, a call for that path that tests the
\* cache afterwards returns the cached response with no device round trip,
\* and no step changes or removes the entry.
C12_CacheHit ==
  [][/\ \A e \in ledgerKeyCache : e \in ledgerKeyCache'
     /\ \A t \in 1..Len(tasks) :
          (/\ tasks[t].pc = "check"
           /\ tasks'[t].pc # "check"
           /\ \E e \in ledgerKeyCache : e.path = tasks[t].path)
          => /\ tasks'[t].pc = "done"
             /\ \E e \in ledgerKeyCache : e.path = tasks[t].path /\ tasks'[t].value = <<e.key>>
             /\ trace' = trace
             /\ ledgerKeyCache' = ledgerKeyCache]_vars

\* A call answered from the cache after an earlier call for the same path
\* fetched the key from the device.
C12_Witness ==
  \E t, u \in 1..Len(tasks) :
    /\ t # u
    /\ tasks[t].path = tasks[u].path
    /\ tasks[t].pc = "done" /\ tasks[t].wrote
    /\ tasks[u].pc = "done" /\ ~tasks[u].wrote
    /\ DeviceAsks(tasks[t].path) = 1

\* ------------------------------------- the raw transactions, fetched at once
\* wallet.ts:283-287  the callbacks utxos.map starts, one per input: each
\* runs up to its await of provider.getRawTransaction(u.txid).
FetchTasks(utxos) ==
  [i \in 1..Len(utxos) |->
     [op |-> "getRawTransaction", utxo |-> utxos[i], pc |-> "fetch",
      value |-> Undefined, rank |-> 0]]

\* wallet.ts:285-286  what a callback returns once its fetch has answered
FetchResult(u) == <<splitTransaction(RawTransaction(u.txid)), u.vout>>

Finished(ts) == {i \in 1..Len(ts) : ts[i].pc = "done"}

\* The callbacks' results put together in the order they completed.
PromiseAllByCompletion(ts) ==
  [k \in 1..Len(ts) |-> ts[CHOOSE i \in 1..Len(ts) : ts[i].rank = k].value[1]]

\* wallet.ts:282  Promise.all: the results at the positions of their callbacks
PromiseAll(ts) == [i \in 1..Len(ts) |-> ts[i].value[1]]

\* wallet.ts:147-149, 334-340  buildTransaction(to, value, data) up to
\* getLedgerInputs, with its single payment: the unused change address and
\* the selection; a failed selection ends the call, a successful one starts
\* the fetches of line 284, in input order.
InputsStart ==
  /\ call = Idle
  /\ \E outputs \in {<<Payment>>} :
       \E sel \in getInputsForAmount(JsArray(outputs), Undefined, DefaultNumAddressPerCall) :
         LET classified == getUsedUnusedAddresses(DefaultNumAddressPerCall)
             trace0     == <<<<"getUnspentTransactions", Len(classified.addressList)>>>>
         IN  /\ call' = [name |-> "buildTransaction", outputs |-> outputs,
                         data |-> Undefined, feePerByte |-> Undefined]
             /\ IF sel.status = "ok"
                THEN /\ result' = [status        |-> "fetching",
                                   selection     |-> sel.value,
                                   unusedAddress |-> classified.unusedAddress.change[1]]
                     /\ tasks' = FetchTasks(sel.value.inputs[1])
                     /\ trace' = trace0 \o sel.trace
                                   \o RawTransactionCalls(sel.value.inputs[1])
                ELSE /\ result' = [status |-> sel.status]
                     /\ tasks' = <<>>
                     /\ trace' = trace0 \o sel.trace
  /\ ledgerKeyCache' = CacheAfterScan(ledgerKeyCache)
  /\ UNCHANGED <<addressType, chain>>

\* _buildTransaction is suspended at the await of line 340.
Fetching == call # Idle /\ result.status = "fetching"

\* wallet.ts:284-286  the provider answers one of the fetches in flight.
FetchCompletes ==
  /\ Fetching
  /\ \E i \in 1..Len(tasks) :
       /\ tasks[i].pc = "fetch"
       /\ tasks' = [tasks EXCEPT ![i].pc = "done",
                                 ![i].value = Some(FetchResult(tasks[i].utxo)),
                                 ![i].rank = Cardinality(Finished(tasks)) + 1]
  /\ UNCHANGED <<addressType, chain, ledgerKeyCache, call, result, trace>>

\* wallet.ts:282-284  one fetch fails: Promise.all rejects and the call ends.
FetchFails ==
  /\ Fetching
  /\ \E i \in 1..Len(tasks) :
       /\ tasks[i].pc = "fetch"
       /\ tasks' = [tasks EXCEPT ![i].pc = "failed"]
  /\ result' = [status |-> "ProviderUnreachable"]
  /\ UNCHANGED <<addressType, chain, ledgerKeyCache, call, trace>>

\* wallet.ts:340-397  every fetch has answered: Promise.all resolves and the
\* rest of _buildTransaction runs up to the signer's answer.
InputsSign ==
  /\ Fetching
  /\ Finished(tasks) = 1..Len(tasks)
  /\ LET built == Assemble(call.outputs, call.data, result.unusedAddress,
                           result.selection, <<>>)
         args  == [built.value[2] EXCEPT !.inputs = PromiseAll(tasks)]
     IN  /\ result' = [status        |-> "ok",
                       value         |-> SignedTransaction(args),
                       selection     |-> result.selection,
                       unusedAddress |-> result.unusedAddress]
         /\ trace' = trace \o <<<<"serializeTransactionOutputs", [outputs |-> call.outputs]>>,
                                <<"createPaymentTransactionNew", args>>>>
  /\ UNCHANGED <<addressType, chain, ledgerKeyCache, call, tasks>>

\* The caller takes the signed transaction or the error.
InputsReturn ==
  /\ call # Idle
  /\ ~Fetching
  /\ call' = Idle
  /\ result' = Idle
  /\ trace' = <<>>
  /\ tasks' = <<>>
  /\ UNCHANGED <<addressType, chain, ledgerKeyCache>>

NextInputs ==
  \/ InputsStart
  \/ FetchCompletes
  \/ FetchFails
  \/ InputsSign
  \/ InputsReturn

SpecInputs == Init /\ [][NextInputs]_vars

\* C13: whatever the order in which the concurrent getRawTransaction calls
\* complete, the signer's input list has the length and order of the input
\* list coinselect returned: entry i is the prior transaction and output
\* index of selected UTXO i, and paths[i] is that UTXO's derivation path.
C13_InputsAligned ==
  (Built /\ Len(SignerCalls) = 1) =>
    LET selected == LastAnswer.inputs[1]
        args     == SignerCalls[1][2]
    IN  /\ Len(args.inputs) = Len(selected)
        /\ Len(args.paths) = Len(selected)
        /\ \A i \in 1..Len(selected) :
             /\ args.inputs[i] = <<<<"split", <<"raw", selected[i].txid>>>>, selected[i].vout>>
             /\ args.paths[i] = selected[i].derivationPath

\* A transaction signed over two inputs whose second fetch answered first.
C13_Witness ==
  /\ Built
  /\ Len(SignerCalls) = 1
  /\ Len(tasks) = 2
  /\ tasks[1].rank = 2
  /\ tasks[2].rank = 1
  /\ tasks[1].utxo.txid # tasks[2].utxo.txid

\* ----------------------------------------------------------- sending
\* The calls of a trace that go to the provider or the device over the wire
\* and so can fail: the address scan's UTXO query, the raw transaction
\* fetches and the signing.
CanFail(c) ==
  c[1] \in {"getUnspentTransactions", "getRawTransaction", "createPaymentTransactionNew"}

\* The error such a call throws when its collaborator cannot be reached.
IoFailure(c) ==
  IF c[1] = "createPaymentTransactionNew" THEN "DeviceUnreachable"
  ELSE "ProviderUnreachable"

\* The calls made when the k-th one fails: those before it, and for a raw
\* transaction fetch all the fetches, which line 283 issues together.
CutAt(t, k) ==
  IF t[k][1] = "getRawTransaction"
  THEN SubSeq(t, 1, CHOOSE j \in k..Len(t) :
                      /\ t[j][1] = "getRawTransaction"
                      /\ \A i \in (j + 1)..Len(t) : t[i][1] # "getRawTransaction")
  ELSE SubSeq(t, 1, k)

\* What provider.sendRawTransaction answers for a transaction it accepts.
Broadcast(signedTransaction) == <<"txhash", signedTransaction>>

\* Line 402 run whatever _buildTransaction did, its error swallowed.
SendAfterBuildAlways(out) ==
  LET sent == Append(out.trace,
                     <<"sendRawTransaction",
                       IF out.status = "ok" THEN out.value ELSE Undefined,
                       IF out.status = "ok" THEN out.data ELSE Undefined>>)
  IN  {[status |-> "ok", value |-> Broadcast(Undefined), trace |-> sent, reached |-> TRUE]}

\* wallet.ts:401-402  _sendTransaction once _buildTransaction has ended: its
\* error is thrown on; its result goes to provider.sendRawTransaction, whose
\* answer or error is the caller's.
SendAfterBuild(out) ==
  IF out.status = "ok"
  THEN LET sent == Append(out.trace, <<"sendRawTransaction", out.value, out.data>>)
       IN  {[status |-> "ok", value |-> Broadcast(out.value), trace |-> sent, reached |-> TRUE],
            [status |-> "SendRejected", trace |-> sent, reached |-> TRUE]}
  ELSE {[status |-> out.status, trace |-> out.trace, reached |-> TRUE]}

\* wallet.ts:333-398 with the collaborators' failures: _buildTransaction
\* ends at the first call that fails.
BuildFailures(out) ==
  {[status |-> IoFailure(out.trace[k]), trace |-> CutAt(out.trace, k)] :
     k \in {k \in 1..Len(out.trace) : CanFail(out.trace[k])}}

\* wallet.ts:400-403  the set of outcomes of _sendTransaction; `reached` tells
\* whether the call got past ledger.getInstance() of line 334 to the first
\* address scan.
sendTransaction(outputs, data, feePerByte) ==
  {[status |-> "DeviceUnreachable", trace |-> <<>>, reached |-> FALSE]}
  \cup UNION {SendAfterBuild(out) \cup UNION {SendAfterBuild(f) : f \in BuildFailures(out)} :
                out \in buildTransaction(outputs, data, feePerByte)}

\* wallet.ts:151-153, 400-403  _sendTransaction(outputs, data, feePerByte)
SendTransaction ==
  /\ call = Idle
  /\ \E outputs \in PaymentLists, data \in DataArgs, feePerByte \in FeeArgs :
       \E out \in sendTransaction(outputs, data, feePerByte) :
         /\ call' = [name |-> "sendTransaction", outputs |-> outputs,
                     data |-> data, feePerByte |-> feePerByte]
         /\ result' = [f \in (DOMAIN out) \ {"trace", "reached"} |-> out[f]]
         /\ trace' = out.trace
         /\ ledgerKeyCache' = IF out.reached THEN CacheAfterScan(ledgerKeyCache)
                              ELSE ledgerKeyCache
  /\ UNCHANGED <<addressType, chain, tasks>>

NextSend ==
  \/ SendTransaction
  \/ Return

SpecSend == Init /\ [][NextSend]_vars

\* A completed _sendTransaction call and its sendRawTransaction invocations.
Sending == call.name = "sendTransaction"

SendCalls == SelectSeq(trace, LAMBDA c : c[1] = "sendRawTransaction")

\* C14: a send whose build fails (device or provider unreachable, fee rate
\* or balance missing) hands the error to the caller without invoking
\* sendRawTransaction; sendRawTransaction is invoked at most once, as the
\* last call, after the signer was called, with what the signer returned.
C14_AllOrNothing ==
  Sending =>
    /\ Len(SendCalls) <= 1
    /\ result.status \in {"DeviceUnreachable", "ProviderUnreachable",
                          "FeeRateUnavailable", "NOT_ENOUGHT_BALANCE"}
         => Len(SendCalls) = 0
    /\ result.status = "ok" => Len(SendCalls) = 1
    /\ Len(SendCalls) = 1 =>
         /\ trace[Len(trace)][1] = "sendRawTransaction"
         /\ Len(SignerCalls) = 1
         /\ SendCalls[1][2] = <<"signed", SignerCalls[1][2]>>
         /\ result.status \in {"ok", "SendRejected"}

\* A send that failed at the signer after the inputs were fetched.
C14_Witness ==
  /\ Sending
  /\ result.status = "DeviceUnreachable"
  /\ Len(SignerCalls) = 1
  /\ Len(SendCalls) = 0

\* ------------------------------------------------------ fee adjustment
\* C15: after a retry that subtracted a fee, the metadata's inputAmount and
\* the first payment output's amount are the post-fee amount; after a first
\* attempt that succeeded the metadata is as the caller passed it and every
\* payment output carries its requested amount.
C15_FeeAdjustment ==
  Built =>
    LET retried == Len(CoinselectCalls) = 2
        postFee == result.selection.amount
    IN  /\ retried =>
             /\ postFee # <<>>
             /\ call.data # <<>> => result.data[1].inputAmount = postFee[1]
             /\ result.paymentOutputs[1].amount = getAmountBuffer(postFee[1])
        /\ ~retried =>
             /\ result.data = call.data
             /\ \A i \in 1..Len(call.outputs) :
                  result.paymentOutputs[i].amount = getAmountBuffer(call.outputs[i].value)

\* ------------------------------------------------- scans and the balance
\* Largest startingIndex of a direct getAddresses call.
MaxStart == 2

\* The sum of line 79-83 over utxo.amount, the amount in coins.
getBalanceOfAmounts(numAddressPerCall) ==
  LET utxos == getUnspentTransactions(getAddressList(numAddressPerCall))
  IN  SumSeq([i \in 1..Len(utxos) |-> utxos[i].amount])

\* wallet.ts:74-86
getBalance(numAddressPerCall) ==
  LET addressList == getAddressList(numAddressPerCall)
      utxos       == getUnspentTransactions(addressList)
  IN  SumSeq([i \in 1..Len(utxos) |-> utxos[i].value])

\* wallet.ts:35-37  getAddresses(startingIndex, numAddresses, change)
GetAddresses ==
  /\ call = Idle
  /\ \E startingIndex \in 0..MaxStart, numAddresses \in 0..MaxBatch, change \in BOOLEAN :
       /\ call' = [name |-> "getAddresses", startingIndex |-> startingIndex,
                   numAddresses |-> numAddresses, change |-> change]
       /\ result' = [status |-> "ok",
                     value  |-> getAddresses(startingIndex, numAddresses, change)]
  /\ trace' = <<>>
  /\ ledgerKeyCache' = CacheAfterScan(ledgerKeyCache)
  /\ UNCHANGED <<addressType, chain, tasks>>

\* wallet.ts:39-49  getAddressList(numAddressPerCall)
GetAddressList ==
  /\ call = Idle
  /\ \E n \in 0..MaxBatch :
       /\ call' = [name |-> "getAddressList", numAddressPerCall |-> n]
       /\ result' = [status |-> "ok", value |-> getAddressList(n)]
  /\ trace' = <<>>
  /\ ledgerKeyCache' = CacheAfterScan(ledgerKeyCache)
  /\ UNCHANGED <<addressType, chain, tasks>>

\* wallet.ts:74-86  getBalance(numAddressPerCall)
GetBalance ==
  /\ call = Idle
  /\ \E n \in 0..MaxBatch :
       /\ call' = [name |-> "getBalance", numAddressPerCall |-> n]
       /\ result' = [status |-> "ok", value |-> getBalance(n)]
       /\ trace' = <<<<"getUnspentTransactions", Len(getAddressList(n))>>>>
  /\ ledgerKeyCache' = CacheAfterScan(ledgerKeyCache)
  /\ UNCHANGED <<addressType, chain, tasks>>

NextScan ==
  \/ GetAddresses
  \/ GetAddressList
  \/ GetBalance
  \/ Return

SpecScan == Init /\ [][NextScan]_vars

\* The purpose segment of the wallet's paths, as the claim's <prefix>.
Purpose ==
  IF addressType = "legacy" THEN "44"
  ELSE IF addressType = "p2sh-segwit" THEN "49"
  ELSE IF addressType = "bech32" THEN "84"
  ELSE "none"

\* s[from + 1 .. from + count] is the scan of indices start..start+count-1
\* of one branch: ascending, flagged with the branch, on the branch's path.
IsScanOf(s, from, start, count, branch) ==
  \A k \in 1..count :
    LET a == s[from + k]
    IN  /\ a.index = start + k - 1
        /\ a.change = branch
        /\ a.derivationPath = <<Purpose, 0, 0, IF branch THEN 1 ELSE 0, start + k - 1>>

\* C16: getAddresses(startIndex, count, branch) returns exactly count
\* addresses, with indices startIndex..startIndex+count-1 in ascending order,
\* each flagged with the branch and carrying the path
\* <prefix>/<branch digit>/<index>; getAddressList(batchSize) is the change
\* scan of [0, batchSize) followed by the non-change scan of [0, batchSize).
C16_ScanRange ==
  /\ call.name = "getAddresses" =>
       /\ Len(result.value) = call.numAddresses
       /\ IsScanOf(result.value, 0, call.startingIndex, call.numAddresses, call.change)
  /\ call.name = "getAddressList" =>
       /\ Len(result.value) = 2 * call.numAddressPerCall
       /\ IsScanOf(result.value, 0, 0, call.numAddressPerCall, TRUE)
       /\ IsScanOf(result.value, call.numAddressPerCall, 0, call.numAddressPerCall, FALSE)

\* A scan of two addresses of the change branch starting above index 0.
C16_Witness ==
  /\ call.name = "getAddresses"
  /\ call.startingIndex > 0
  /\ call.numAddresses = 2
  /\ call.change
  /\ Len(result.value) = 2

\* The unspent outputs of the chain that pay an address of either branch at
\* an index below n, and the sum of their value fields.
InBatch(u, n) ==
  \E i \in 0..(n - 1), c \in BOOLEAN : u.address = DeriveAddress(i, c).address

RECURSIVE ValueSum(_, _)
ValueSum(us, n) ==
  IF us = <<>> THEN 0
  ELSE (IF InBatch(Head(us), n) THEN Head(us).value ELSE 0) + ValueSum(Tail(us), n)

\* C17: getBalance(batchSize) is the sum of the value field over every UTXO
\* of the addresses of both branches at indices below batchSize; 0 if there
\* is none.
C17_BalanceIsValueSum ==
  call.name = "getBalance" =>
    /\ result.status = "ok"
    /\ result.value = ValueSum(chain, call.numAddressPerCall)

\* A balance over two unspent outputs, one of them left outside the batch.
C17_Witness ==
  /\ call.name = "getBalance"
  /\ Len(chain) = 2
  /\ call.numAddressPerCall = 1
  /\ result.value = chain[1].value
  /\ result.value > 0

\* ------------------------------------------------ an unknown address type
\* An addressType the constructor accepts although the table of line 12 and
\* getAddressFromPublicKey do not know it.
UnsupportedTypes == {"p2pkh"}

\* wallet.ts:25-33  the wallet constructed with any addressType string; a
\* wallet of an unknown type has no unspent outputs to its name.
InitFormat ==
  /\ addressType \in AddressTypes \cup UnsupportedTypes
  /\ \E n \in 0..MaxUtxos :
       /\ addressType \notin AddressTypes => n = 0
       /\ \E owners \in [1..n -> Owners] :
            chain = [i \in 1..n |-> Utxo(i, owners[i])]
  /\ ledgerKeyCache = {}
  /\ call = Idle
  /\ result = Idle
  /\ trace = <<>>
  /\ tasks = <<>>

SpecFormat == InitFormat /\ [][NextScan]_vars

\* C18: deriving addresses with an addressType other than legacy,
\* p2sh-segwit and bech32 fails with UnsupportedAddressFormat, and no derived
\* address lacks its address string or has a malformed path prefix.
C18_UnsupportedFormatFails ==
  call.name \in {"getAddresses", "getAddressList"} =>
    /\ addressType \notin {"legacy", "p2sh-segwit", "bech32"}
         => result.status = "UnsupportedAddressFormat"
    /\ result.status = "ok" =>
         \A i \in 1..Len(result.value) :
           /\ result.value[i].address # <<>>
           /\ result.value[i].derivationPath[1] \in {"44", "49", "84"}

\* ------------------------------------------------ the unused pair, again
\* The indices of a branch within the batch that have no unspent output and
\* lie above every index of the branch that has one.
UnusedAfterLastUsed(key, n) ==
  {i \in 0..(n - 1) :
     /\ ~HasUtxo(DeriveAddress(i, key = "change"))
     /\ \A j \in i..(n - 1) : ~HasUtxo(DeriveAddress(j, key = "change"))}

\* C19: when a branch has an address without UTXOs after its last used
\* address in the batch, the branch's slot is the lowest-index such address;
\* with no UTXOs at all (and a batch that is not empty) usedAddresses is
\* empty and each slot is index 0 of its own branch.
C19_GapSelection ==
  Classified =>
    /\ \A key \in Keys :
         LET after == UnusedAfterLastUsed(key, call.numAddressPerCall)
             slot  == result.value.unusedAddress[key]
         IN  after # {} =>
               /\ slot # <<>>
               /\ slot[1].change = (key = "change")
               /\ slot[1].index \in after
               /\ \A i \in after : slot[1].index <= i
    /\ (Len(chain) = 0 /\ call.numAddressPerCall >= 1) =>
         /\ result.value.usedAddresses = <<>>
         /\ \A key \in Keys :
              /\ result.value.unusedAddress[key][1].index = 0
              /\ result.value.unusedAddress[key][1].change = (key = "change")

\* A branch whose slot lies above a used address of the same branch.
C19_Witness ==
  /\ Classified
  /\ \E key \in Keys :
       /\ result.value.unusedAddress[key] # <<>>
       /\ result.value.unusedAddress[key][1].index = 1
       /\ result.value.unusedAddress[key][1].change = (key = "change")
       /\ HasUtxo(DeriveAddress(0, key = "change"))
       /\ ~HasUtxo(DeriveAddress(1, key = "change"))

\* C20: for every batch size >= 1 the change slot of the unused pair is an
\* address of the change branch, also when the fallback put it there, and
\* the change path _buildTransaction hands to the signer lies on the
\* change branch.
C20_ChangeOnChangeBranch ==
  /\ (Classified /\ call.numAddressPerCall >= 1) =>
       LET slot == result.value.unusedAddress["change"]
       IN  /\ slot # <<>>
           /\ slot[1].change = TRUE
           /\ Len(slot[1].derivationPath) = 5
           /\ slot[1].derivationPath[4] = 1
  /\ Building =>
       \A k \in 1..Len(SignerCalls) :
         /\ Len(SignerCalls[k][2].changePath) = 5
         /\ SignerCalls[k][2].changePath[4] = 1

\* The fallback fired for both slots: the change slot stays on the change
\* branch, the non-change slot got a change-branch address.
C20_Witness ==
  /\ Classified
  /\ call.numAddressPerCall >= 1
  /\ result.value.scanned["change"] = <<>>
  /\ result.value.scanned["nonChange"] = <<>>
  /\ result.value.unusedAddress["nonChange"][1].change = TRUE

====
